---- MODULE Spec2Model ----
(***************************************************************************)
(* Model of hfutils/diurnal_cycle.py: get_approx_localtime,                *)
(* _get_time_resolution and avg_diurnal_cycle.                             *)
(*                                                                         *)
(* Timestamps are whole seconds counted from a midnight.  A longitude is   *)
(* an exact rational <<num, den>> in degrees; the longitudes used are ones *)
(* for which the IEEE-754 evaluation of line 39 truncates to the same      *)
(* whole second as the exact value.  A timedelta64 value is a record       *)
(* [n, unit]: n ticks of `unit` seconds, as in numpy's timedelta64[<k>s].  *)
(***************************************************************************)
EXTENDS Integers, Sequences, FiniteSets, TLC

\* ------------------------------------------------------------------ bounds
MaxRes == 4          \* resolutions 1..MaxRes are tried next to 60, 120, 21600
MaxSamples == 4      \* longest time coordinate

\* ------------------------------------------------------- program constants
SecondsPerDay == 86400

NoValue == "None"

\* ------------------------------------------------------------ input sets
LonValues ==
    { <<0, 1>>, <<180, 1>>, <<-180, 1>>, <<90, 1>>, <<-90, 1>>, <<15, 1>>,
      <<1, 240>>, <<-1, 240>>, <<1, 480>>, <<-1, 480>>, <<3, 480>>,
      <<-3, 480>>, <<5, 480>>, <<-5, 480>>, <<7, 480>>, <<-7, 480>> }

ResValues == (1..MaxRes) \cup {60, 120, 21600}

RefTimes == {0, 1, 60, 120, 21600, 43200, 64800, 86399}

TimeValues == {0, 60, 120, 180, 240}

\* Gaps of the time coordinates of the datasets given to avg_diurnal_cycle.
GapValues == {60, 120, 21600}

\* Longitude coordinates of those datasets.
LonCoords ==
    { << <<0, 1>> >>,
      << <<0, 1>>, <<180, 1>> >>,
      << <<-90, 1>>, <<0, 1>>, <<90, 1>> >>,
      << <<-1, 480>>, <<1, 240>> >>,
      << <<15, 1>>, <<15, 1>> >> }

\* Dimensions of those datasets besides 'time' and 'lon': <<name, size>>.
DimConfigs ==
    { {},
      { <<"lat", 1>> },
      { <<"lat", 2>> },
      { <<"lat", 2>>, <<"lev", 1>> } }

\* Which cells of the data variable are missing (NaN).
MissingPatterns == {"none", "one", "time1", "lon1slice1", "all"}

\* ------------------------------------------------------ integer helpers
Abs(x) == IF x < 0 THEN -x ELSE x

\* C integer division (and the float -> int64 cast): rounds toward zero.
TruncDiv(a, b) ==
    IF (a >= 0) = (b > 0) \/ a = 0
    THEN Abs(a) \div Abs(b)
    ELSE -(Abs(a) \div Abs(b))

RECURSIVE Gcd(_, _)
Gcd(a, b) == IF b = 0 THEN a ELSE Gcd(b, a % b)

\* ------------------------------------------------ numpy timedelta64 model
Timedelta(n, unit) == [n |-> n, unit |-> unit]

TimedeltaSeconds(td) == td.n * td.unit

\* float array .astype('timedelta64[s]'): the real value num/den is cast to
\* int64, i.e. truncated toward zero.
FloatToTimedelta(num, den) == Timedelta(TruncDiv(num, den), 1)

\* timedelta64[<a>s] .astype('timedelta64[<b>s]'), numpy's datetime cast:
\*   dt < 0 ? (dt * num - (denom - 1)) / denom : dt * num / denom
\* with num/denom the reduced conversion factor a/b.
TimedeltaAstype(td, newUnit) ==
    LET g     == Gcd(td.unit, newUnit)
        num   == td.unit \div g
        denom == newUnit \div g
        dt    == td.n
    IN  Timedelta(IF dt < 0
                  THEN TruncDiv(dt * num - (denom - 1), denom)
                  ELSE TruncDiv(dt * num, denom),
                  newUnit)

\* timedelta64 * integer: the ticks are multiplied, the unit is kept.
TimedeltaMul(td, k) == Timedelta(td.n * k, td.unit)

\* timedelta64 + timedelta64: the result unit is the gcd of the two units.
TimedeltaAdd(a, b) ==
    LET g == Gcd(a.unit, b.unit)
    IN  Timedelta(a.n * (a.unit \div g) + b.n * (b.unit \div g), g)

\* datetime64 + timedelta64, in seconds.
DatetimeAdd(t, td) == t + TimedeltaSeconds(td)

\* ------------------------------------------------- get_approx_localtime
\* line 39: ((longitude * 12/180) * 60**2).astype('timedelta64[s]')
LongitudeOffset(lon) == FloatToTimedelta(lon[1] * 12 * (60 * 60), lon[2] * 180)

\* Variant of SnapToResolution: the offset is not snapped at all.
SnapToResolution_Skipped(td, R) == td

\* lines 42-44: .astype(f'timedelta64[{R}s]') * R
SnapToResolution(td, R) == TimedeltaMul(TimedeltaAstype(td, R), R)

\* Variant of HalfResolution: the half is rounded up, not truncated.
HalfResolution_RoundedUp(R) == FloatToTimedelta(R + 1, 2)

\* line 48: np.array(R/2).astype('timedelta64[s]')
HalfResolution(R) == FloatToTimedelta(R, 2)

\* Variant of local_time_offset: centring is applied outside the
\* keep_time_resolution branch.
local_time_offset_CenterAlways(lon, R, keep_time_resolution, center) ==
    LET off39 == LongitudeOffset(lon)
        kept  == IF keep_time_resolution THEN SnapToResolution(off39, R)
                                         ELSE off39
    IN  IF center THEN TimedeltaAdd(kept, HalfResolution(R)) ELSE kept

\* lines 39-50: the offset added to the reference time
local_time_offset(lon, R, keep_time_resolution, center) ==
    LET off39 == LongitudeOffset(lon)
    IN  IF keep_time_resolution
        THEN LET snapped == SnapToResolution(off39, R)
             IN  IF center THEN TimedeltaAdd(snapped, HalfResolution(R))
                           ELSE snapped
        ELSE off39

get_approx_localtime(reference_datetime, lon, R, keep_time_resolution, center) ==
    DatetimeAdd(reference_datetime,
                local_time_offset(lon, R, keep_time_resolution, center))

\* ------------------------------------------------- _get_time_resolution
\* time.diff(dim='time'): the gaps between consecutive samples, in the order
\* the coordinate presents them.
Diff(time) == [i \in 1..(Len(time) - 1) |-> time[i + 1] - time[i]]

RECURSIVE SortedSeq(_)
SortedSeq(S) ==
    IF S = {} THEN <<>>
    ELSE LET m == CHOOSE x \in S : \A y \in S : x <= y
         IN  <<m>> \o SortedSeq(S \ {m})

\* np.unique: the sorted distinct elements of an array.
Unique(a) == SortedSeq({a[i] : i \in DOMAIN a})

Returned(v) == [ok |-> TRUE, value |-> v, error |-> NoValue]
Raised(e) == [ok |-> FALSE, value |-> 0, error |-> e]

\* Variant of get_time_resolution: the timestamps are sorted and
\* deduplicated before the gaps are taken.
get_time_resolution_SortedFirst(time) ==
    LET unique_time_dels == Unique(Diff(Unique(time)))
    IN  IF Len(unique_time_dels) > 1
        THEN Raised("ValueError")
        ELSE IF Len(unique_time_dels) = 0
             THEN Raised("IndexError")
             ELSE Returned(unique_time_dels[1])

\* Variant of get_time_resolution: the check fires on more than two gaps.
get_time_resolution_MoreThanTwo(time) ==
    LET unique_time_dels == Unique(Diff(time))
    IN  IF Len(unique_time_dels) > 2
        THEN Raised("ValueError")
        ELSE IF Len(unique_time_dels) = 0
             THEN Raised("IndexError")
             ELSE Returned(unique_time_dels[1])

\* Variant of get_time_resolution: the check fires unless there is exactly
\* one gap.
get_time_resolution_NotOne(time) ==
    LET unique_time_dels == Unique(Diff(time))
    IN  IF Len(unique_time_dels) # 1
        THEN Raised("ValueError")
        ELSE Returned(unique_time_dels[1])

\* lines 76-83.  The timestamps are whole seconds, so the cast of the gaps to
\* timedelta64[s] on line 76 and to int on line 83 keep their values.
get_time_resolution(time) ==
    LET unique_time_dels == Unique(Diff(time))
    IN  IF Len(unique_time_dels) > 1
        THEN Raised("ValueError")
        ELSE IF Len(unique_time_dels) = 0
             THEN Raised("IndexError")
             ELSE Returned(unique_time_dels[1])

\* ---------------------------------------------------- avg_diurnal_cycle
\* A value of the data variable or of the result: NaN or a reduced fraction.
NaN == [nan |-> TRUE, num |-> 0, den |-> 1]

Rational(num, den) ==
    LET g == Gcd(Abs(num), den)
    IN  [nan |-> FALSE, num |-> num \div g, den |-> den \div g]

RECURSIVE Product(_)
Product(dims) ==
    IF dims = {} THEN 1
    ELSE LET d == CHOOSE x \in dims : TRUE
         IN  d[2] * Product(dims \ {d})

RECURSIVE PrefixSums(_)
PrefixSums(gaps) ==
    IF Len(gaps) = 0 THEN <<0>>
    ELSE LET front == PrefixSums(SubSeq(gaps, 1, Len(gaps) - 1))
         IN  Append(front, front[Len(front)] + gaps[Len(gaps)])

IsMissing(pattern, ti, li, s) ==
    CASE pattern = "none"       -> FALSE
      [] pattern = "one"        -> ti = 1 /\ li = 1 /\ s = 1
      [] pattern = "time1"      -> ti = 1
      [] pattern = "lon1slice1" -> li = 1 /\ s = 1
      [] pattern = "all"        -> TRUE

\* An input dataset: coordinates 'time' and 'lon', further dimensions, one
\* data variable over (time, lon, slice of the further dimensions), and the
\* keyword arguments of the call.
Dataset(time, lon, dims, pattern, keep, center) ==
    [time |-> time, lon |-> lon, dims |-> dims,
     data |-> [c \in (1..Len(time)) \X (1..Len(lon)) \X (1..Product(dims)) |->
                 IF IsMissing(pattern, c[1], c[2], c[3])
                 THEN NaN
                 ELSE Rational(c[1] + 4 * c[2] + 16 * c[3], 1)],
     keep |-> keep, center |-> center]

NoDataset == [returned |-> FALSE, keys |-> <<>>, values |-> <<>>, dims |-> {}]

\* line 109: dset.stack(local_time=('lon', 'time')); 'lon' varies slowest.
Stack(nlon, ntime) ==
    [k \in 1..(nlon * ntime) |->
        <<((k - 1) \div ntime) + 1, ((k - 1) % ntime) + 1>>]

StackedDims(d) == d.dims \cup { <<"local_time", Len(d.lon) * Len(d.time)>> }

\* lines 110-114: the local-time label of every stacked sample.
LocalTimeLabels(d, stack, R) ==
    [k \in DOMAIN stack |->
        get_approx_localtime(d.time[stack[k][2]], d.lon[stack[k][1]],
                             R, d.keep, d.center)]

\* Variant of Squeeze: nothing is dropped.
Squeeze_Nothing(dims) == dims

\* line 115: .squeeze() drops every dimension of size 1.
Squeeze(dims) == { x \in dims : x[2] # 1 }

\* line 117: the 'local_time.time' key, the time of day of a label.
TimeOfDay(t) == t % SecondsPerDay

\* line 117: the members of one group in one slice, in stacked order.
GroupMembers(d, stack, labels, key, s) ==
    LET index   == [k \in DOMAIN stack |-> k]
        members == SelectSeq(index, LAMBDA k : TimeOfDay(labels[k]) = key)
    IN  [j \in DOMAIN members |->
            d.data[<<stack[members[j]][2], stack[members[j]][1], s>>]]

RECURSIVE NanSum(_)
NanSum(cells) ==
    IF Len(cells) = 0 THEN 0
    ELSE (IF Head(cells).nan THEN 0 ELSE Head(cells).num) + NanSum(Tail(cells))

RECURSIVE NanCount(_)
NanCount(cells) ==
    IF Len(cells) = 0 THEN 0
    ELSE (IF Head(cells).nan THEN 0 ELSE 1) + NanCount(Tail(cells))

\* Variant of NanMean: the sum of the non-missing members is divided by the
\* number of all members.
NanMean_CountAll(cells) ==
    IF NanCount(cells) = 0 THEN NaN
    ELSE Rational(NanSum(cells), Len(cells))

\* line 117: mean(skipna=True): the sum of the non-missing members over
\* their number; NaN when there is none.
NanMean(cells) ==
    IF NanCount(cells) = 0 THEN NaN
    ELSE Rational(NanSum(cells), NanCount(cells))

\* line 117: groupby("local_time.time").mean(skipna=True)
GroupbyMean(d, stack, labels, dims) ==
    LET keys == Unique([k \in DOMAIN labels |-> TimeOfDay(labels[k])])
    IN  [returned |-> TRUE,
         keys |-> keys,
         values |-> [i \in DOMAIN keys |->
                       [s \in 1..Product(d.dims) |->
                          NanMean(GroupMembers(d, stack, labels, keys[i], s))]],
         dims |-> { x \in dims : x[1] # "local_time" } \cup { <<"time", Len(keys)>> }]

\* ------------------------------------------------------------------ state
VARIABLES
    lt_call,      \* the last get_approx_localtime call: arguments and result
    res_call,     \* the last _get_time_resolution call: argument and outcome
    pc,           \* position of the avg_diurnal_cycle call
    dset,         \* its argument
    resolution,   \* outcome of line 107
    stacked,      \* line 109: the (lon, time) index pair of every stacked sample
    local_time,   \* lines 110-114: the label of every stacked sample
    cur_dims,     \* dimensions of the working dataset
    out           \* the returned dataset

vars == <<lt_call, res_call, pc, dset, resolution, stacked, local_time,
          cur_dims, out>>

adc_vars == <<pc, dset, resolution, stacked, local_time, cur_dims, out>>

Init ==
    /\ lt_call = [called |-> FALSE, ref |-> 0, lon |-> <<0, 1>>, R |-> 1,
                  keep |-> TRUE, center |-> FALSE, result |-> 0]
    /\ res_call = [called |-> FALSE, time |-> <<>>, ret |-> Returned(0)]
    /\ pc = "idle"
    /\ dset = Dataset(<<>>, <<>>, {}, "none", TRUE, FALSE)
    /\ resolution = Returned(0)
    /\ stacked = <<>>
    /\ local_time = <<>>
    /\ cur_dims = {}
    /\ out = NoDataset

\* A call get_approx_localtime(ref, lon, R, keep, center) on one
\* (time, longitude) pair.
CallGetApproxLocaltime(ref, lon, R, keep, center) ==
    /\ ~lt_call.called
    /\ lt_call' = [called |-> TRUE, ref |-> ref, lon |-> lon, R |-> R,
                   keep |-> keep, center |-> center,
                   result |-> get_approx_localtime(ref, lon, R, keep, center)]
    /\ UNCHANGED <<res_call, adc_vars>>

NextLT ==
    \E ref \in RefTimes, lon \in LonValues, R \in ResValues,
       keep \in BOOLEAN, center \in BOOLEAN :
        CallGetApproxLocaltime(ref, lon, R, keep, center)

SpecLT == Init /\ [][NextLT]_vars

\* A call _get_time_resolution(time) on a time coordinate presented in any
\* order, repeats included.
CallGetTimeResolution(time) ==
    /\ ~res_call.called
    /\ res_call' = [called |-> TRUE, time |-> time,
                    ret |-> get_time_resolution(time)]
    /\ UNCHANGED <<lt_call, adc_vars>>

NextRes ==
    \E n \in 1..MaxSamples : \E time \in [1..n -> TimeValues] :
        CallGetTimeResolution(time)

SpecRes == Init /\ [][NextRes]_vars

\* avg_diurnal_cycle(d), line 107: the resolution is inferred; an error
\* raised there leaves the function.
InferResolution(d) ==
    /\ pc = "idle"
    /\ dset' = d
    /\ resolution' = get_time_resolution(d.time)
    /\ cur_dims' = d.dims \cup { <<"time", Len(d.time)>>, <<"lon", Len(d.lon)>> }
    /\ pc' = IF resolution'.ok THEN "resolved" ELSE "raised"
    /\ UNCHANGED <<lt_call, res_call, stacked, local_time, out>>

\* line 109
StackLonTime ==
    /\ pc = "resolved"
    /\ stacked' = Stack(Len(dset.lon), Len(dset.time))
    /\ cur_dims' = StackedDims(dset)
    /\ pc' = "stacked"
    /\ UNCHANGED <<lt_call, res_call, dset, resolution, local_time, out>>

\* lines 110-115
AssignLocalTime ==
    /\ pc = "stacked"
    /\ local_time' = LocalTimeLabels(dset, stacked, resolution.value)
    /\ cur_dims' = Squeeze(cur_dims)
    /\ pc' = "labelled"
    /\ UNCHANGED <<lt_call, res_call, dset, resolution, stacked, out>>

\* line 117
ReturnGroupMeans ==
    /\ pc = "labelled"
    /\ out' = GroupbyMean(dset, stacked, local_time, cur_dims)
    /\ pc' = "done"
    /\ UNCHANGED <<lt_call, res_call, dset, resolution, stacked, local_time,
                   cur_dims>>

CallAvgDiurnalCycle ==
    /\ pc = "idle"
    /\ \E n \in 0..(MaxSamples - 1) : \E gaps \in [1..n -> GapValues] :
       \E lon \in LonCoords, dims \in DimConfigs,
          pattern \in MissingPatterns, keep \in BOOLEAN, center \in BOOLEAN :
            InferResolution(Dataset(PrefixSums(gaps), lon, dims, pattern,
                                    keep, center))

Next ==
    \/ CallAvgDiurnalCycle
    \/ StackLonTime
    \/ AssignLocalTime
    \/ ReturnGroupMeans

Spec == Init /\ [][Next]_vars

\* ================================================================ claims
\* ---- get_approx_localtime, under SpecLT

\* The offset a call added to its reference time, in seconds.
AddedOffset == lt_call.result - lt_call.ref

\* C1: with keep_resolution = true and center = false the offset added to the
\* reference time is floor(longitude * 240 / R) * R seconds, for every
\* longitude and every positive resolution R.
C1_OffsetIsFlooredBucket ==
    (lt_call.called /\ lt_call.keep /\ ~lt_call.center) =>
        AddedOffset =
            ((lt_call.lon[1] * 240) \div (lt_call.lon[2] * lt_call.R)) * lt_call.R

\* C3 as stated: at longitude 0 the local time equals the reference time for
\* every resolution and every combination of keep_resolution and center.
C3_ZeroLongitudeNoOffset ==
    (lt_call.called /\ lt_call.lon[1] = 0) => lt_call.result = lt_call.ref

\* C3 amended: at longitude 0 the local time equals the reference time
\* unless keep_resolution and center are both true; then it is the reference
\* time plus floor(R/2) seconds.
C3_ZeroLongitudeOffset ==
    (lt_call.called /\ lt_call.lon[1] = 0) =>
        AddedOffset = IF lt_call.keep /\ lt_call.center
                      THEN lt_call.R \div 2
                      ELSE 0

C3_Witness ==
    /\ lt_call.called
    /\ lt_call.lon[1] = 0
    /\ lt_call.keep /\ lt_call.center
    /\ lt_call.R >= 2
    /\ lt_call.result # lt_call.ref

\* The result of the same call with keep_resolution = true, center = false.
UncentredResult ==
    get_approx_localtime(lt_call.ref, lt_call.lon, lt_call.R, TRUE, FALSE)

\* C4 as stated: with keep_resolution = true, center = true returns the
\* center = false result plus exactly R/2 seconds, odd R included.
C4_CenterAddsExactHalf ==
    (lt_call.called /\ lt_call.keep /\ lt_call.center) =>
        2 * (lt_call.result - UncentredResult) = lt_call.R

\* C4 amended: with keep_resolution = true, center = true returns the
\* center = false result plus floor(R/2) whole seconds: R/2 for even R,
\* (R-1)/2 for odd R.
C4_CenterAddsTruncatedHalf ==
    (lt_call.called /\ lt_call.keep /\ lt_call.center) =>
        lt_call.result - UncentredResult = lt_call.R \div 2

C4_Witness ==
    /\ lt_call.called
    /\ lt_call.keep /\ lt_call.center
    /\ lt_call.R = 3
    /\ lt_call.lon = <<-7, 480>>
    /\ lt_call.result = UncentredResult + 1

\* C5: with keep_resolution = true and center = false the added offset is an
\* exact multiple of R seconds, so a reference time on the grid k*R is mapped
\* to a local time on that grid.
C5_OffsetOnGrid ==
    (lt_call.called /\ lt_call.keep /\ ~lt_call.center) =>
        /\ AddedOffset % lt_call.R = 0
        /\ (lt_call.ref % lt_call.R = 0) => (lt_call.result % lt_call.R = 0)

C5_Witness ==
    /\ lt_call.called
    /\ lt_call.keep /\ ~lt_call.center
    /\ lt_call.R = 2
    /\ lt_call.lon = <<7, 480>>
    /\ lt_call.ref = 60
    /\ lt_call.result # lt_call.ref
    /\ lt_call.result % 2 = 0

\* ---- _get_time_resolution, under SpecRes

\* The timestamps of the coordinate, as a set.
Timestamps(time) == { time[i] : i \in DOMAIN time }

\* The sorted distinct timestamps are at least two and evenly spaced by g.
EvenlySpacedSet(T, g) ==
    /\ Cardinality(T) >= 2
    /\ g > 0
    /\ \A x \in T : (\A y \in T : x <= y) \/ (x - g) \in T

\* Every gap between consecutive samples, as presented, equals g.
PresentedGapsAre(time, g) ==
    \A i \in 1..(Len(time) - 1) : time[i + 1] - time[i] = g

\* C9 as stated: when the sorted distinct timestamps are evenly spaced by g
\* the inference returns g, whatever the order and multiplicity in which the
\* coordinate presents them.
C9_DependsOnTimestampSetOnly ==
    res_call.called =>
        \A g \in 1..240 :
            EvenlySpacedSet(Timestamps(res_call.time), g) =>
                res_call.ret = Returned(g)

\* C9 amended: the gaps are those between consecutive samples as presented;
\* with at least two samples the inference returns g exactly when every
\* presented gap equals g, so timestamps whose sorted distinct values are
\* evenly spaced by g give g only when presented ascending without repeats.
C9_DependsOnPresentedGaps ==
    (res_call.called /\ Len(res_call.time) >= 2) =>
        /\ \A g \in -240..240 :
               (res_call.ret = Returned(g)) <=> PresentedGapsAre(res_call.time, g)
        /\ \A g \in 1..240 :
               (/\ EvenlySpacedSet(Timestamps(res_call.time), g)
                /\ ~PresentedGapsAre(res_call.time, g))
               => res_call.ret # Returned(g)

C9_Witness ==
    /\ res_call.called
    /\ res_call.time = <<0, 120, 60>>
    /\ EvenlySpacedSet(Timestamps(res_call.time), 60)
    /\ res_call.ret = Raised("ValueError")

\* ---- avg_diurnal_cycle, under Spec

Called == pc # "idle"

\* All consecutive gaps of the dataset's time coordinate are equal.
UniformGaps ==
    \A i, j \in 1..(Len(dset.time) - 1) :
        dset.time[i + 1] - dset.time[i] = dset.time[j + 1] - dset.time[j]

\* C2: with at least two samples, equal gaps give that gap as the resolution
\* (gaps 60,60,60 give 60); more than one distinct gap (60,120,60) raises the
\* not-evenly-spaced error, which avg_diurnal_cycle propagates, returning no
\* dataset.
C2_UniformOrRaises ==
    (Called /\ Len(dset.time) >= 2) =>
        /\ UniformGaps =>
              /\ resolution = Returned(dset.time[2] - dset.time[1])
              /\ pc # "raised"
        /\ ~UniformGaps =>
              /\ resolution = Raised("ValueError")
              /\ pc = "raised"
              /\ out = NoDataset
        /\ (dset.time = <<0, 60, 120, 180>>) => resolution = Returned(60)
        /\ (dset.time = <<0, 60, 180, 240>>) => ~resolution.ok

C2_Witness ==
    /\ pc = "raised"
    /\ dset.time = <<0, 60, 180, 240>>
    /\ resolution = Raised("ValueError")
    /\ out = NoDataset

\* C10: a resolution is returned only for at least two samples; a one-sample
\* time coordinate fails on indexing the first gap (an index error, not the
\* not-evenly-spaced error) and avg_diurnal_cycle returns no dataset.
C10_OneSampleIndexError ==
    /\ (Called /\ Len(dset.time) = 1) =>
          /\ resolution = Raised("IndexError")
          /\ pc = "raised"
          /\ out = NoDataset
    /\ (Called /\ resolution.ok) => Len(dset.time) >= 2
    /\ out.returned => Len(dset.time) >= 2

C10_Witness ==
    /\ pc = "raised"
    /\ Len(dset.time) = 1
    /\ resolution = Raised("IndexError")
    /\ out = NoDataset

\* C6: 4 samples 6 hours apart from midnight, longitude [0, 180],
\* keep_resolution = true, center = false: the resolution is 21600 s, every
\* sample at longitude 180 is labelled 12 h after its reference time (its
\* time-of-day key is the reference time of day shifted by 12 h), every
\* sample at longitude 0 keeps its reference time, and there are at most 4
\* time-of-day buckets.
C6_EndToEndExample ==
    (/\ pc \in {"labelled", "done"}
     /\ dset.time = <<0, 21600, 43200, 64800>>
     /\ dset.lon = << <<0, 1>>, <<180, 1>> >>
     /\ dset.keep /\ ~dset.center) =>
        /\ resolution = Returned(21600)
        /\ \A k \in DOMAIN stacked :
              LET ref == dset.time[stacked[k][2]]
              IN  IF stacked[k][1] = 2
                  THEN /\ local_time[k] = ref + 43200
                       /\ TimeOfDay(local_time[k]) = (ref + 43200) % 86400
                  ELSE local_time[k] = ref
        /\ (pc = "done") => Len(out.keys) <= 4

\* The value of stacked sample k in slice s.
CellOf(k, s) == dset.data[<<stacked[k][2], stacked[k][1], s>>]

RECURSIVE SumOfCells(_, _)
SumOfCells(K, s) ==
    IF K = {} THEN 0
    ELSE LET k == CHOOSE x \in K : TRUE
         IN  CellOf(k, s).num + SumOfCells(K \ {k}, s)

\* C7: every output value is the arithmetic mean of the non-missing values
\* among all (time, lon) samples whose local-time label has the bucket's time
\* of day; every sample falls in exactly one bucket; a bucket slice with only
\* missing samples is missing.
C7_BucketIsMeanOfPresent ==
    (pc = "done") =>
        LET samples == DOMAIN stacked
            tods    == { local_time[k] % 86400 : k \in samples }
        IN  /\ { out.keys[i] : i \in DOMAIN out.keys } = tods
            /\ Len(out.keys) = Cardinality(tods)
            /\ Cardinality(samples) = Len(dset.time) * Len(dset.lon)
            /\ \A i \in DOMAIN out.keys : \A s \in 1..Product(dset.dims) :
                  LET present == { k \in samples :
                                      /\ local_time[k] % 86400 = out.keys[i]
                                      /\ ~CellOf(k, s).nan }
                      mean    == out.values[i][s]
                  IN  IF present = {}
                      THEN mean.nan
                      ELSE /\ ~mean.nan
                           /\ mean.num * Cardinality(present)
                                = SumOfCells(present, s) * mean.den

C7_Witness ==
    /\ pc = "done"
    /\ \E i \in DOMAIN out.keys : \E s \in 1..Product(dset.dims) :
          /\ ~out.values[i][s].nan
          /\ \E k \in DOMAIN stacked :
                /\ local_time[k] % 86400 = out.keys[i]
                /\ CellOf(k, s).nan
    /\ \E i \in DOMAIN out.keys : out.values[i][1].nan

\* C8 as stated: the result has exactly the input's dimensions other than
\* 'time' and 'lon', each with its size (a size-1 latitude included), plus
\* the time-of-day dimension.
C8_KeepsAllOtherDims ==
    (pc = "done") => out.dims = dset.dims \cup { <<"time", Len(out.keys)>> }

\* C8 amended: the result has exactly the input's dimensions other than
\* 'time' and 'lon' whose size is greater than 1, each with its size, plus
\* the time-of-day dimension; every size-1 dimension is dropped.
C8_KeepsOtherDimsAboveOne ==
    (pc = "done") =>
        out.dims = { x \in dset.dims : x[2] > 1 } \cup { <<"time", Len(out.keys)>> }

C8_Witness ==
    /\ pc = "done"
    /\ dset.dims = { <<"lat", 2>>, <<"lev", 1>> }
    /\ out.dims = { <<"lat", 2>>, <<"time", Len(out.keys)>> }

====
